---- MODULE Spec2Model ----
(***************************************************************************)
(* The TODO backend of packages/backend/src/app.js: an Express app over a  *)
(* single in-memory SQLite table `items`.  Strings are sequences of UTF-16 *)
(* code units (ASCII here), so trim, toLowerCase, includes, length and the *)
(* BINARY collation of SQLite are computed, not assumed.  After the        *)
(* backend come its write handlers statement by statement, the item card   *)
(* and the React front end (App over the useItems hook) that calls it.     *)
(***************************************************************************)
EXTENDS Integers, Sequences, FiniteSets, TLC

VARIABLES items, seq, clock, res, everIds, nreq

\* The browser: the state of App, the state of the useItems hook, the
\* exchanges with the server, and the card last rendered.  calls holds the
\* activations of the server's handlers when they are followed step by step.
VARIABLES app, hook, net, card, calls

vars == <<items, seq, clock, res, everIds, nreq, app, hook, net, card, calls>>

\* What a request handled in one step leaves alone.
browser == <<app, hook, net, card>>

\* Bounds of the exploration.
MaxReq == 2
MaxClock == 1

\* The limit on the trimmed name's length.
MaxNameLen == 200

(***************************************************************************)
(* JavaScript values of a request body: a tag and a payload.               *)
(***************************************************************************)
Undefined == [t |-> "undefined", v |-> <<>>]
JsNull == [t |-> "null", v |-> <<>>]
Str(s) == [t |-> "string", v |-> s]
Num(n) == [t |-> "number", v |-> <<n>>]
Bool(b) == [t |-> "boolean", v |-> <<IF b THEN 1 ELSE 0>>]

\* ToBoolean: what `!x`, `x && ...` and `x || ...` test.
Truthy(x) ==
  CASE x.t = "undefined" -> FALSE
    [] x.t = "null" -> FALSE
    [] x.t = "string" -> x.v # <<>>
    [] x.t = "number" -> x.v[1] # 0
    [] x.t = "boolean" -> x.v[1] = 1
    [] OTHER -> TRUE

\* `x || null`, as bound to a statement parameter.
OrNull(x) == IF Truthy(x) THEN x ELSE JsNull

\* White space as String.prototype.trim sees it (the ASCII part).
IsSpace(c) == c \in {9, 10, 11, 12, 13, 32}

\* The least member of a non-empty set of integers.
Least(S) == CHOOSE x \in S : \A y \in S : x <= y

\* The recursion runs over the white space only.
RECURSIVE TrimStart(_)
TrimStart(s) ==
  IF s # <<>> /\ IsSpace(s[1]) THEN TrimStart(SubSeq(s, 2, Len(s))) ELSE s

RECURSIVE TrimEnd(_)
TrimEnd(s) ==
  IF s # <<>> /\ IsSpace(s[Len(s)]) THEN TrimEnd(SubSeq(s, 1, Len(s) - 1)) ELSE s

\* String.prototype.trim
Trim(s) == TrimEnd(TrimStart(s))

\* String.prototype.toLowerCase (ASCII letters)
LowerChar(c) == IF c >= 65 /\ c <= 90 THEN c + 32 ELSE c
ToLowerCase(s) == [i \in 1..Len(s) |-> LowerChar(s[i])]

\* String.prototype.includes
Includes(s, sub) ==
  \E i \in 0..(Len(s) - Len(sub)) : SubSeq(s, i + 1, i + Len(sub)) = sub

\* memcmp of two TEXT values (SQLite's BINARY collation): -1, 0 or 1.
TextCmp(a, b) ==
  LET n == IF Len(a) < Len(b) THEN Len(a) ELSE Len(b)
      diff == { i \in 1..n : a[i] # b[i] }
  IN IF diff # {}
       THEN (IF a[Least(diff)] < b[Least(diff)] THEN -1 ELSE 1)
     ELSE IF Len(a) < Len(b) THEN -1
     ELSE IF Len(a) > Len(b) THEN 1
     ELSE 0

\* 'a'.repeat(n)
Repeat(c, n) == [i \in 1..n |-> c]

(***************************************************************************)
(* SQLite values: NULL, INTEGER (tag "number") and TEXT (tag "string").    *)
(***************************************************************************)
IsDigit(c) == c >= 48 /\ c <= 57

RECURSIVE DigitsValue(_)
DigitsValue(ds) ==
  IF ds = <<>> THEN 0
  ELSE 10 * DigitsValue(SubSeq(ds, 1, Len(ds) - 1)) + (ds[Len(ds)] - 48)

AllDigits(s) == s # <<>> /\ \A i \in 1..Len(s) : IsDigit(s[i])

\* 10^n
RECURSIVE Pow10(_)
Pow10(n) == IF n = 0 THEN 1 ELSE 10 * Pow10(n - 1)

\* A REAL that is no integer: m * 10^sc with sc < 0.
Real(m, sc) == [t |-> "real", v |-> <<m, sc>>]

\* The parts of a numeric literal: digits, an optional fraction after '.',
\* an optional exponent after 'e' or 'E' (the texts of the model carry no
\* sign before the digits and no white space around them).
ExpMarks(s) == { i \in 1..Len(s) : s[i] \in {69, 101} }
Mantissa(s) == IF ExpMarks(s) = {} THEN s ELSE SubSeq(s, 1, Least(ExpMarks(s)) - 1)
ExponentText(s) ==
  IF ExpMarks(s) = {} THEN <<>> ELSE SubSeq(s, Least(ExpMarks(s)) + 1, Len(s))
Dots(m) == { i \in 1..Len(m) : m[i] = 46 }
IntPart(m) == IF Dots(m) = {} THEN m ELSE SubSeq(m, 1, Least(Dots(m)) - 1)
FracPart(m) == IF Dots(m) = {} THEN <<>> ELSE SubSeq(m, Least(Dots(m)) + 1, Len(m))
Unsigned(e) == IF e # <<>> /\ e[1] \in {43, 45} THEN SubSeq(e, 2, Len(e)) ELSE e
ExponentValue(e) ==
  IF e = <<>> THEN 0
  ELSE IF e[1] = 45 THEN 0 - DigitsValue(Unsigned(e))
  ELSE DigitsValue(Unsigned(e))

\* Whether a text is a well-formed integer or real literal.
IsNumericLiteral(s) ==
  LET ip == IntPart(Mantissa(s))
      fp == FracPart(Mantissa(s))
  IN /\ \A i \in 1..Len(ip) : IsDigit(ip[i])
     /\ \A i \in 1..Len(fp) : IsDigit(fp[i])
     /\ ip \o fp # <<>>
     /\ ExpMarks(s) # {} => AllDigits(Unsigned(ExponentText(s)))

\* A TEXT value that is a well-formed integer or real literal becomes a
\* number where NUMERIC or INTEGER affinity applies, an INTEGER when the
\* number is one ('12' and '1.2e1' both become 12); any other text stays TEXT.
ApplyNumericAffinity(x) ==
  IF x.t # "string" \/ ~IsNumericLiteral(x.v) THEN x
  ELSE LET fp == FracPart(Mantissa(x.v))
           m == DigitsValue(IntPart(Mantissa(x.v)) \o fp)
           sc == ExponentValue(ExponentText(x.v)) - Len(fp)
       IN IF sc >= 0 THEN Num(m * Pow10(sc))
          ELSE IF m % Pow10(0 - sc) = 0 THEN Num(m \div Pow10(0 - sc))
          ELSE Real(m, sc)

\* Storage-class order of SQLite: NULL < INTEGER and REAL < TEXT.
ClassRank(x) ==
  IF x.t = "null" THEN 0 ELSE IF x.t \in {"number", "real"} THEN 1 ELSE 2

\* The power of ten a stored number is scaled by.
NumScale(x) == IF x.t = "real" THEN x.v[2] ELSE 0

\* Comparison of two stored values: -1, 0 or 1.
SqlCmp(a, b) ==
  IF ClassRank(a) # ClassRank(b)
    THEN (IF ClassRank(a) < ClassRank(b) THEN -1 ELSE 1)
  ELSE IF a.t = "null" THEN 0
  ELSE IF ClassRank(a) = 1
    THEN LET lo == IF NumScale(a) < NumScale(b) THEN NumScale(a) ELSE NumScale(b)
             x == a.v[1] * Pow10(NumScale(a) - lo)
             y == b.v[1] * Pow10(NumScale(b) - lo)
         IN IF x < y THEN -1 ELSE IF x > y THEN 1 ELSE 0
  ELSE TextCmp(a.v, b.v)

\* The columns of table items.
Columns == {"id", "name", "description", "completed", "due_date",
            "created_at", "updated_at"}

\* The value of a column of a row, as SQLite compares it.
ColumnValue(r, col) ==
  CASE col = "id" -> Num(r.id)
    [] col = "name" -> Str(r.name)
    [] col = "description" -> r.description
    [] col = "completed" -> Num(r.completed)
    [] col = "due_date" -> r.due_date
    [] col = "created_at" -> Num(r.created_at)
    [] col = "updated_at" -> Num(r.updated_at)

\* A clock that runs a second behind.
StaleTimestamp == IF clock > 0 THEN clock - 1 ELSE clock

\* CURRENT_TIMESTAMP: a fixed-width 'YYYY-MM-DD HH:MM:SS' text, whose order
\* is the order of the seconds it names; the model keeps the seconds.
CurrentTimestamp == clock

\* The rowid of a table without AUTOINCREMENT: one more than the largest
\* rowid the table holds now.
NextRowidOfLiveRows(tbl, s) ==
  IF tbl = <<>> THEN 1
  ELSE 1 + (CHOOSE m \in { tbl[i].id : i \in DOMAIN tbl } :
              \A i \in DOMAIN tbl : tbl[i].id <= m)

\* AUTOINCREMENT: one more than the largest rowid the table ever held.
NextRowid(tbl, s) == s + 1

\* The lookup with the bound text compared as text: it equals no rowid.
SelectByIdAsText(tbl, idv) ==
  SelectSeq(tbl, LAMBDA r : idv.t = "number" /\ r.id = idv.v[1])

\* SELECT * FROM items WHERE id = ?  (zero or one row). The bound value is
\* the URL text or lastInsertRowid; the INTEGER column's affinity is applied
\* to a bound text before the comparison.
SelectById(tbl, idv) ==
  LET k == ApplyNumericAffinity(idv)
  IN SelectSeq(tbl, LAMBDA r : k.t = "number" /\ r.id = k.v[1])

(***************************************************************************)
(* Seed data (initialItems) and the strings the requests use.              *)
(***************************************************************************)
SampleTask1 == <<83, 97, 109, 112, 108, 101, 32, 84, 97, 115, 107, 32, 49>>
SampleTask2 == <<83, 97, 109, 112, 108, 101, 32, 84, 97, 115, 107, 32, 50>>
SampleTask3 == <<83, 97, 109, 112, 108, 101, 32, 84, 97, 115, 107, 32, 51>>
\* 'This is a sample task', 'Another sample task', 'Very important task'
SampleDesc1 == <<84, 104, 105, 115, 32, 105, 115, 32, 97, 32, 115, 97, 109, 112, 108, 101, 32, 116, 97, 115, 107>>
SampleDesc2 == <<65, 110, 111, 116, 104, 101, 114, 32, 115, 97, 109, 112, 108, 101, 32, 116, 97, 115, 107>>
SampleDesc3 == <<86, 101, 114, 121, 32, 105, 109, 112, 111, 114, 116, 97, 110, 116, 32, 116, 97, 115, 107>>
\* toISOString() of two days after and one day before the start,
\* the start taken as 2024-01-02T00:00:00.000Z
SampleDue1 == <<50, 48, 50, 52, 45, 48, 49, 45, 48, 52, 84, 48, 48, 58, 48, 48, 58, 48, 48, 46, 48, 48, 48, 90>>
SampleDue3 == <<50, 48, 50, 52, 45, 48, 49, 45, 48, 49, 84, 48, 48, 58, 48, 48, 58, 48, 48, 46, 48, 48, 48, 90>>

initialItems ==
  << [name |-> SampleTask1, description |-> Str(SampleDesc1), completed |-> 0,
      due_date |-> Str(SampleDue1)],
     [name |-> SampleTask2, description |-> Str(SampleDesc2), completed |-> 1,
      due_date |-> JsNull],
     [name |-> SampleTask3, description |-> Str(SampleDesc3), completed |-> 0,
      due_date |-> Str(SampleDue3)] >>

\* insertStmt.run for each seed: rowids 1..3, both timestamps defaulted.
SeedRows ==
  [i \in 1..Len(initialItems) |->
     [id |-> i, name |-> initialItems[i].name,
      description |-> initialItems[i].description,
      completed |-> initialItems[i].completed,
      due_date |-> ApplyNumericAffinity(initialItems[i].due_date),
      created_at |-> 0, updated_at |-> 0]]

(***************************************************************************)
(* GET /api/items: getSortClause, ORDER BY, applyFilters.                  *)
(***************************************************************************)
\* A query parameter that the request does not carry.
Absent == "<absent>"

\* The properties every object literal inherits from Object.prototype.
ObjectPrototypeKeys ==
  {"constructor", "toString", "valueOf", "hasOwnProperty", "isPrototypeOf",
   "propertyIsEnumerable", "toLocaleString", "__proto__"}

\* validSorts[sort]: an own property gives its column, an inherited one a
\* function or object (truthy, and no column), anything else undefined.
ValidSortsLookup(sort) ==
  CASE sort = "date" -> "due_date"
    [] sort = "name" -> "name"
    [] sort = "created" -> "created_at"
    [] sort \in ObjectPrototypeKeys -> "[native code]"
    [] OTHER -> Absent

\* validSorts[sort] || 'created_at'
SortField(sort) ==
  IF ValidSortsLookup(sort) = Absent THEN "created_at" ELSE ValidSortsLookup(sort)

\* order === 'asc' ? 'ASC' : 'DESC'
SortOrder(order) == IF order = "asc" THEN "ASC" ELSE "DESC"

\* getSortClause without the `due_date IS NULL` term.
getSortClauseNoNullTerm(sort, order) ==
  << [col |-> SortField(sort), isnull |-> FALSE, dir |-> SortOrder(order)] >>

\* The ORDER BY terms: `due_date IS NULL, due_date <order>` or `<field> <order>`.
getSortClause(sort, order) ==
  IF SortField(sort) = "due_date"
    THEN << [col |-> "due_date", isnull |-> TRUE, dir |-> "ASC"],
            [col |-> "due_date", isnull |-> FALSE, dir |-> SortOrder(order)] >>
    ELSE << [col |-> SortField(sort), isnull |-> FALSE, dir |-> SortOrder(order)] >>

\* db.prepare throws on a term that names no column of the table.
PrepareThrows(clause) == \E i \in 1..Len(clause) : clause[i].col \notin Columns

\* The value an ORDER BY term gives a row.
TermValue(term, r) ==
  IF term.isnull
    THEN Num(IF ColumnValue(r, term.col).t = "null" THEN 1 ELSE 0)
    ELSE ColumnValue(r, term.col)

\* Comparison of two rows under the terms from position i on.
RECURSIVE RowCmp(_, _, _, _)
RowCmp(clause, i, r, q) ==
  IF i > Len(clause) THEN 0
  ELSE LET c == SqlCmp(TermValue(clause[i], r), TermValue(clause[i], q))
           d == IF clause[i].dir = "ASC" THEN c ELSE 0 - c
       IN IF d # 0 THEN d ELSE RowCmp(clause, i + 1, r, q)

\* Every sequence of the rows of S that ORDER BY may return: SQL leaves the
\* order of rows that compare equal open.
RECURSIVE Orderings(_, _)
Orderings(clause, S) ==
  IF S = {} THEN {<<>>}
  ELSE UNION { { <<r>> \o t : t \in Orderings(clause, S \ {r}) } :
               r \in { m \in S : \A q \in S : RowCmp(clause, 1, m, q) <= 0 } }

Range(f) == { f[i] : i \in DOMAIN f }

\* SELECT * FROM items ORDER BY <clause>
OrderBy(clause, tbl) == Orderings(clause, Range(tbl))

\* The completion filter with its second branch lost.
FilterStageCompleteOnly(rows, filter) ==
  IF filter = "complete" THEN SelectSeq(rows, LAMBDA r : r.completed = 1) ELSE rows

\* The completion filter of applyFilters.
FilterStage(rows, filter) ==
  IF filter = "complete" THEN SelectSeq(rows, LAMBDA r : r.completed = 1)
  ELSE IF filter = "incomplete" THEN SelectSeq(rows, LAMBDA r : r.completed = 0)
  ELSE rows

\* The predicate with the name compared as stored, not lower-cased.
SearchMatchNameAsStored(r, searchLower) ==
  \/ r.name # <<>> /\ Includes(r.name, searchLower)
  \/ Truthy(r.description) /\ Includes(ToLowerCase(r.description.v), searchLower)

\* The predicate of the search filter for one row.
SearchMatch(r, searchLower) ==
  \/ r.name # <<>> /\ Includes(ToLowerCase(r.name), searchLower)
  \/ Truthy(r.description) /\ Includes(ToLowerCase(r.description.v), searchLower)

\* The search filter of applyFilters.
SearchStage(rows, search) ==
  IF Truthy(search) /\ Trim(search.v) # <<>>
    THEN SelectSeq(rows, LAMBDA r : SearchMatch(r, ToLowerCase(Trim(search.v))))
    ELSE rows

applyFilters(rows, filter, search) == SearchStage(FilterStage(rows, filter), search)

(***************************************************************************)
(* Responses.                                                              *)
(***************************************************************************)
NoRequest == [op |-> "none", status |-> 0, error |-> "", rows |-> <<>>,
              sorted |-> <<>>, message |-> "", id |-> 0, req |-> <<>>,
              existing |-> <<>>]

Reply(op, req, status, rows) ==
  [op |-> op, status |-> status, error |-> "", rows |-> rows,
   sorted |-> <<>>, message |-> "", id |-> 0, req |-> req, existing |-> <<>>]

Fail(op, req, status, error) ==
  [op |-> op, status |-> status, error |-> error, rows |-> <<>>,
   sorted |-> <<>>, message |-> "", id |-> 0, req |-> req, existing |-> <<>>]

\* app.get('/api/items'). The response keeps, beside the body (rows), what
\* the statement returned before applyFilters (sorted).
ListItems(q) ==
  /\ nreq < MaxReq
  /\ nreq' = nreq + 1
  /\ LET clause == getSortClause(q.sort, q.order)
     IN IF PrepareThrows(clause)
          THEN res' = Fail("list", q, 500, "Failed to fetch items")
          ELSE \E sorted \in OrderBy(clause, items) :
                 res' = [Reply("list", q, 200, applyFilters(sorted, q.filter, q.search))
                           EXCEPT !.sorted = sorted]
  /\ UNCHANGED <<items, seq, clock, everIds>>

(***************************************************************************)
(* The :id parameter and the validation shared by POST and PUT.            *)
(***************************************************************************)
\* The longest prefix of s made of digits.
DigitPrefix(s) ==
  LET stops == { i \in 1..Len(s) : ~IsDigit(s[i]) }
  IN IF stops = {} THEN s ELSE SubSeq(s, 1, Least(stops) - 1)

\* The digits parseInt reads: after leading white space and one sign.
ParseIntDigits(s) ==
  LET u == TrimStart(s)
      w == IF u # <<>> /\ Head(u) \in {43, 45} THEN Tail(u) ELSE u
  IN DigitPrefix(w)

\* parseInt(id), for an id whose digits parseInt reads (no sign in the model's ids)
ParseInt(s) == DigitsValue(ParseIntDigits(s))

\* The test of the id with its second half lost.
InvalidIdEmptyOnly(id) == id = <<>>

\* !id || isNaN(parseInt(id))
InvalidId(id) == id = <<>> \/ ParseIntDigits(id) = <<>>

\* YYYY-MM-DD with a month 01..12 and a day 01..31
IsIsoDay(s) ==
  /\ Len(s) = 10
  /\ \A i \in {1, 2, 3, 4, 6, 7, 9, 10} : IsDigit(s[i])
  /\ s[5] = 45 /\ s[8] = 45
  /\ DigitsValue(SubSeq(s, 6, 7)) \in 1..12
  /\ DigitsValue(SubSeq(s, 9, 10)) \in 1..31

\* THH:MM:SS.sssZ
IsIsoTime(s) ==
  /\ Len(s) = 14
  /\ s[1] = 84 /\ s[4] = 58 /\ s[7] = 58 /\ s[10] = 46 /\ s[14] = 90
  /\ \A i \in {2, 3, 5, 6, 8, 9, 11, 12, 13} : IsDigit(s[i])
  /\ DigitsValue(SubSeq(s, 2, 3)) \in 0..23
  /\ DigitsValue(SubSeq(s, 5, 6)) \in 0..59
  /\ DigitsValue(SubSeq(s, 8, 9)) \in 0..59

\* !isNaN(new Date(s).getTime()) for a string s: the ISO forms parse; the
\* other strings the requests use ('', 'invalid-date') do not.
DateParses(s) ==
  \/ IsIsoDay(s)
  \/ Len(s) = 24 /\ IsIsoDay(SubSeq(s, 1, 10)) /\ IsIsoTime(SubSeq(s, 11, 24))

\* !name || typeof name !== 'string' || name.trim() === ''
NameMissing(name) ==
  \/ ~Truthy(name)
  \/ name.t # "string"
  \/ Trim(name.v) = <<>>

\* name.trim().length > 200
NameTooLong(name) == Len(Trim(name.v)) > MaxNameLen

\* due_date && due_date !== null, and the parse fails
DueDateInvalid(due) ==
  Truthy(due) /\ due.t # "null" /\ ~DateParses(due.v)

\* The validation of a body: the error of the first check that fails, or "".
ValidateItem(name, due) ==
  IF NameMissing(name) THEN "Item name is required"
  ELSE IF NameTooLong(name) THEN "Item name must not exceed 200 characters"
  ELSE IF DueDateInvalid(due) THEN "Invalid due date format"
  ELSE ""

\* The name bound as received.
StoredNameAsReceived(name) == name.v

\* The name as bound to the statement.
StoredName(name) == Trim(name.v)

\* The row of an INSERT that binds the body's name untrimmed.
InsertedRowRawName(id, body) ==
  [id |-> id,
   name |-> body.name.v,
   description |-> OrNull(body.description),
   completed |-> 0,
   due_date |-> ApplyNumericAffinity(OrNull(body.due_date)),
   created_at |-> CurrentTimestamp,
   updated_at |-> CurrentTimestamp]

\* The row INSERT creates: completed 0, both timestamps defaulted.
InsertedRow(id, body) ==
  [id |-> id,
   name |-> StoredName(body.name),
   description |-> OrNull(body.description),
   completed |-> 0,
   due_date |-> ApplyNumericAffinity(OrNull(body.due_date)),
   created_at |-> CurrentTimestamp,
   updated_at |-> CurrentTimestamp]

\* app.post('/api/items')
CreateItem(body) ==
  /\ nreq < MaxReq
  /\ nreq' = nreq + 1
  /\ LET err == ValidateItem(body.name, body.due_date)
         id == NextRowid(items, seq)
     IN IF err # ""
          THEN /\ res' = Fail("create", body, 400, err)
               /\ UNCHANGED <<items, seq, everIds>>
          ELSE /\ items' = Append(items, InsertedRow(id, body))
               /\ seq' = id
               /\ everIds' = everIds \cup {id}
               /\ res' = Reply("create", body, 201, SelectById(items', Num(id)))
  /\ UNCHANGED clock

\* app.get('/api/items/:id')
GetItem(id) ==
  /\ nreq < MaxReq
  /\ nreq' = nreq + 1
  /\ res' = IF InvalidId(id)
              THEN Fail("get", [id |-> id], 400, "Valid item ID is required")
            ELSE IF SelectById(items, Str(id)) = <<>>
              THEN Fail("get", [id |-> id], 404, "Item not found")
            ELSE Reply("get", [id |-> id], 200, SelectById(items, Str(id)))
  /\ UNCHANGED <<items, seq, clock, everIds>>

\* The coercion by truthiness: completed ? 1 : 0
CompletedValueTruthy(c) == IF Truthy(c) THEN 1 ELSE 0

\* completed === true || completed === 1 ? 1 : 0
CompletedValue(c) ==
  IF (c.t = "boolean" /\ c.v[1] = 1) \/ (c.t = "number" /\ c.v[1] = 1) THEN 1 ELSE 0

\* The row of an UPDATE that sets created_at beside updated_at.
UpdatedRowResetsCreatedAt(r, body) ==
  [r EXCEPT !.name = StoredName(body.name),
            !.description = OrNull(body.description),
            !.completed = CompletedValue(body.completed),
            !.due_date = ApplyNumericAffinity(OrNull(body.due_date)),
            !.created_at = CurrentTimestamp,
            !.updated_at = CurrentTimestamp]

\* The row UPDATE ... SET name, description, completed, due_date, updated_at leaves.
UpdatedRow(r, body) ==
  [r EXCEPT !.name = StoredName(body.name),
            !.description = OrNull(body.description),
            !.completed = CompletedValue(body.completed),
            !.due_date = ApplyNumericAffinity(OrNull(body.due_date)),
            !.updated_at = CurrentTimestamp]

\* The rows WHERE id = ? selects, as positions of the table.
Matching(tbl, idv) == { i \in DOMAIN tbl : SelectById(<<tbl[i]>>, idv) # <<>> }

\* The update handler with completed and updated_at written before the body
\* is validated.
UpdateItemWritesFirst(id, body) ==
  /\ nreq < MaxReq
  /\ nreq' = nreq + 1
  /\ LET req == [id |-> id, body |-> body]
         err == ValidateItem(body.name, body.due_date)
     IN IF InvalidId(id)
          THEN /\ res' = Fail("update", req, 400, "Valid item ID is required")
               /\ UNCHANGED items
        ELSE IF SelectById(items, Str(id)) = <<>>
          THEN /\ res' = Fail("update", req, 404, "Item not found")
               /\ UNCHANGED items
        ELSE IF err # ""
          THEN /\ res' = Fail("update", req, 400, err)
               /\ items' = [i \in DOMAIN items |->
                              IF i \in Matching(items, Str(id))
                                THEN [items[i] EXCEPT
                                        !.completed = CompletedValue(body.completed),
                                        !.updated_at = CurrentTimestamp]
                                ELSE items[i]]
        ELSE /\ items' = [i \in DOMAIN items |->
                            IF i \in Matching(items, Str(id))
                              THEN UpdatedRow(items[i], body) ELSE items[i]]
             /\ res' = Reply("update", req, 200, SelectById(items', Str(id)))
  /\ UNCHANGED <<seq, clock, everIds>>

\* The update handler with the body validated before the record is looked up.
UpdateItemBodyFirst(id, body) ==
  /\ nreq < MaxReq
  /\ nreq' = nreq + 1
  /\ LET req == [id |-> id, body |-> body]
         err == ValidateItem(body.name, body.due_date)
     IN IF InvalidId(id)
          THEN /\ res' = Fail("update", req, 400, "Valid item ID is required")
               /\ UNCHANGED items
        ELSE IF err # ""
          THEN /\ res' = Fail("update", req, 400, err)
               /\ UNCHANGED items
        ELSE IF SelectById(items, Str(id)) = <<>>
          THEN /\ res' = Fail("update", req, 404, "Item not found")
               /\ UNCHANGED items
        ELSE /\ items' = [i \in DOMAIN items |->
                            IF i \in Matching(items, Str(id))
                              THEN UpdatedRow(items[i], body) ELSE items[i]]
             /\ res' = Reply("update", req, 200, SelectById(items', Str(id)))
  /\ UNCHANGED <<seq, clock, everIds>>

\* app.put('/api/items/:id')
UpdateItem(id, body) ==
  /\ nreq < MaxReq
  /\ nreq' = nreq + 1
  /\ LET req == [id |-> id, body |-> body]
         err == ValidateItem(body.name, body.due_date)
     IN IF InvalidId(id)
          THEN /\ res' = Fail("update", req, 400, "Valid item ID is required")
               /\ UNCHANGED items
        ELSE IF SelectById(items, Str(id)) = <<>>
          THEN /\ res' = Fail("update", req, 404, "Item not found")
               /\ UNCHANGED items
        ELSE IF err # ""
          THEN /\ res' = Fail("update", req, 400, err)
               /\ UNCHANGED items
        ELSE /\ items' = [i \in DOMAIN items |->
                            IF i \in Matching(items, Str(id))
                              THEN UpdatedRow(items[i], body) ELSE items[i]]
             /\ res' = Reply("update", req, 200, SelectById(items', Str(id)))
  /\ UNCHANGED <<seq, clock, everIds>>

\* The toggle that only ever completes.
ToggledToOne(c) == 1

\* existingItem.completed === 1 ? 0 : 1
Toggled(c) == IF c = 1 THEN 0 ELSE 1

\* app.patch('/api/items/:id'). The response keeps, beside the body (rows),
\* the row the handler read before it wrote (existing).
ToggleItem(id) ==
  /\ nreq < MaxReq
  /\ nreq' = nreq + 1
  /\ LET req == [id |-> id]
         found == SelectById(items, Str(id))
     IN IF InvalidId(id)
          THEN /\ res' = Fail("toggle", req, 400, "Valid item ID is required")
               /\ UNCHANGED items
        ELSE IF found = <<>>
          THEN /\ res' = Fail("toggle", req, 404, "Item not found")
               /\ UNCHANGED items
        ELSE /\ items' = [i \in DOMAIN items |->
                            IF i \in Matching(items, Str(id))
                              THEN [items[i] EXCEPT !.completed = Toggled(found[1].completed),
                                                    !.updated_at = CurrentTimestamp]
                              ELSE items[i]]
             /\ res' = [Reply("toggle", req, 200, SelectById(items', Str(id)))
                          EXCEPT !.existing = found]
  /\ UNCHANGED <<seq, clock, everIds>>

\* app.delete('/api/items/:id')
DeleteItem(id) ==
  /\ nreq < MaxReq
  /\ nreq' = nreq + 1
  /\ LET req == [id |-> id]
     IN IF InvalidId(id)
          THEN /\ res' = Fail("delete", req, 400, "Valid item ID is required")
               /\ UNCHANGED items
        ELSE IF SelectById(items, Str(id)) = <<>>
          THEN /\ res' = Fail("delete", req, 404, "Item not found")
               /\ UNCHANGED items
        ELSE /\ items' = SelectSeq(items, LAMBDA r : SelectById(<<r>>, Str(id)) = <<>>)
             /\ res' = IF Len(items') < Len(items)
                         THEN [Reply("delete", req, 200, <<>>) EXCEPT
                                 !.message = "Item deleted successfully",
                                 !.id = ParseInt(id)]
                         ELSE Fail("delete", req, 404, "Item not found")
  /\ UNCHANGED <<seq, clock, everIds>>

\* A second passes on the wall clock CURRENT_TIMESTAMP reads.
Tick ==
  /\ clock < MaxClock
  /\ clock' = clock + 1
  /\ UNCHANGED <<items, seq, res, everIds, nreq, browser, calls>>

(***************************************************************************)
(* The requests the exploration issues.                                    *)
(***************************************************************************)
NameA == <<97>>
NameB == <<66>>
NameBPadded == <<32, 98, 32>>
Name200 == Repeat(97, MaxNameLen)
Name201 == Repeat(97, MaxNameLen + 1)
Name200Padded == <<32>> \o Name200 \o <<9>>
Blank == <<32, 32>>
DescAb == <<65, 98>>
Due0101 == <<50, 48, 50, 52, 45, 48, 49, 45, 48, 49>>
Due0601 == <<50, 48, 50, 52, 45, 48, 54, 45, 48, 49>>
InvalidDate == <<105, 110, 118, 97, 108, 105, 100, 45, 100, 97, 116, 101>>
SearchTask == <<32, 84, 65, 83, 75, 32>>
SearchImportant == <<105, 109, 112, 111, 114, 116, 97, 110, 116>>
SearchSample == <<83, 65, 77, 80, 76, 69>>
IdAbc == <<97, 98, 99>>
\* '0.3e1': the number 3 to SQLite, 0 to parseInt
Id03e1 == <<48, 46, 51, 101, 49>>
TextOne == <<49>>
TextTrue == <<116, 114, 117, 101>>

NameInputs ==
  {Undefined, Num(5), Str(<<>>), Str(Blank), Str(NameA), Str(NameB),
   Str(NameBPadded), Str(Name200), Str(Name201), Str(Name200Padded)}
DueInputs == {Undefined, JsNull, Str(<<>>), Str(Due0601), Str(InvalidDate)}

\* Bodies of POST: every name alone, every due_date with a valid name, and
\* the bodies in which two checks fail at once.
CreateBodies ==
  [name : NameInputs, description : {Undefined}, due_date : {Undefined}]
    \cup [name : {Str(NameA)}, description : {Undefined, Str(DescAb)}, due_date : DueInputs]
    \cup [name : {Undefined, Str(Blank), Str(Name201), Str(NameBPadded)},
          description : {Str(DescAb)}, due_date : {Str(InvalidDate), Str(Due0601)}]

\* Bodies of PUT: two that pass, and one failing each check.
UpdateBodies ==
  { [name |-> Str(NameB), description |-> Str(DescAb), completed |-> Num(1),
     due_date |-> Str(Due0101)],
    [name |-> Str(NameBPadded), description |-> Undefined, completed |-> Undefined,
     due_date |-> Undefined],
    [name |-> Str(Blank), description |-> Undefined, completed |-> Undefined,
     due_date |-> Str(InvalidDate)],
    [name |-> Str(Name201), description |-> Undefined, completed |-> Undefined,
     due_date |-> Undefined],
    [name |-> Str(NameA), description |-> Undefined, completed |-> Undefined,
     due_date |-> Str(InvalidDate)] }

\* Bodies of PUT: the ones above, and two that carry an empty string.
EditBodies ==
  UpdateBodies \cup
  { [name |-> Str(NameA), description |-> Str(DescAb), completed |-> Bool(TRUE),
     due_date |-> Str(<<>>)],
    [name |-> Str(NameB), description |-> Str(<<>>), completed |-> Num(0),
     due_date |-> JsNull] }

\* The values a body of PUT may carry as completed.
CompletedInputs ==
  {Undefined, JsNull, Bool(TRUE), Bool(FALSE), Num(0), Num(1), Num(2),
   Str(TextOne), Str(TextTrue)}

\* Bodies of PUT that differ in completed alone.
CompletedBodies ==
  [name : {Str(NameA)}, description : {Undefined}, completed : CompletedInputs,
   due_date : {Str(Due0101)}]

\* The decimal text of the ids a run can assign, and a text that is no number.
IdInputs == { <<48 + n>> : n \in 1..(Len(initialItems) + MaxReq) } \cup {IdAbc}

\* The ids of two seed records and of the first record a run creates, a text
\* that is no number, and a text that is a number to SQLite and another to
\* parseInt.
EditIds == {<<50>>, <<51>>, <<48 + Len(initialItems) + 1>>, IdAbc, Id03e1}

SortInputs == {Absent, "created", "date", "name", "bogus", "constructor"}
OrderInputs == {Absent, "asc", "desc", "bogus"}
FilterInputs == {Absent, "all", "complete", "incomplete", "bogus"}
SearchInputs ==
  {Undefined, Str(Blank), Str(SearchTask), Str(SearchImportant), Str(SearchSample)}

\* Queries of GET /api/items: every sort with every order, every filter with
\* every search, and the two filters under the sorts by name and by date.
Queries ==
  [sort : SortInputs, order : {"asc", "desc"}, filter : {Absent}, search : {Undefined}]
    \cup [sort : {"created", "date", "name"}, order : OrderInputs,
          filter : {Absent}, search : {Undefined}]
    \cup [sort : {"name"}, order : {"asc"}, filter : FilterInputs, search : SearchInputs]
    \cup [sort : {"date", "name"}, order : {"asc", "desc"},
          filter : {"complete", "incomplete"}, search : {Undefined, Str(SearchTask)}]

\* The queries the UI issues first: no parameter, and its defaults.
BasicQueries ==
  { [sort |-> Absent, order |-> Absent, filter |-> Absent, search |-> Undefined],
    [sort |-> "name", order |-> "asc", filter |-> "all", search |-> Undefined],
    [sort |-> "date", order |-> "desc", filter |-> "incomplete", search |-> Undefined] }

\* Bodies of POST with short names.
ShortBodies ==
  { [name |-> Str(NameA), description |-> Undefined, due_date |-> Undefined],
    [name |-> Str(NameB), description |-> Str(DescAb), due_date |-> Str(Due0601)],
    [name |-> Str(NameBPadded), description |-> Undefined, due_date |-> Str(Due0101)] }

\* App before its first effects: the initial values of its useState calls.
AppInit ==
  [mounted |-> FALSE, dialogOpen |-> FALSE, editingItem |-> <<>>,
   confirmDialogOpen |-> FALSE, itemToDelete |-> <<>>, filter |-> "all",
   sort |-> "created", order |-> "desc", successMessage |-> ""]

\* useItems before its first effect; null is the empty sequence.
HookInit == [items |-> <<>>, loading |-> TRUE, error |-> <<>>]

Init ==
  /\ items = SeedRows
  /\ seq = Len(initialItems)
  /\ clock = 0
  /\ res = NoRequest
  /\ everIds = 1..Len(initialItems)
  /\ nreq = 0
  /\ app = AppInit
  /\ hook = HookInit
  /\ net = <<>>
  /\ card = <<>>
  /\ calls = <<>>

List == \E q \in BasicQueries : ListItems(q) /\ UNCHANGED <<browser, calls>>
Get == \E id \in IdInputs : GetItem(id) /\ UNCHANGED <<browser, calls>>
Create == \E body \in CreateBodies : CreateItem(body) /\ UNCHANGED <<browser, calls>>
Update == \E id \in IdInputs, body \in UpdateBodies : UpdateItem(id, body) /\ UNCHANGED <<browser, calls>>
Toggle == \E id \in IdInputs : ToggleItem(id) /\ UNCHANGED <<browser, calls>>
Delete == \E id \in IdInputs : DeleteItem(id) /\ UNCHANGED <<browser, calls>>

Next == List \/ Get \/ Create \/ Update \/ Toggle \/ Delete \/ Tick

Spec == Init /\ [][Next]_vars

\* The list endpoint under every query, over the stores that short creates
\* and toggles build.
ListAny == \E q \in Queries : ListItems(q) /\ UNCHANGED <<browser, calls>>
CreateShort == \E body \in ShortBodies : CreateItem(body) /\ UNCHANGED <<browser, calls>>

NextList == ListAny \/ CreateShort \/ Toggle \/ Tick

SpecList == Init /\ [][NextList]_vars

\* The update endpoint under every value of completed, among toggles and
\* short creates.
UpdateAny == \E id \in EditIds, body \in CompletedBodies : UpdateItem(id, body) /\ UNCHANGED <<browser, calls>>
ToggleEdit == \E id \in EditIds : ToggleItem(id) /\ UNCHANGED <<browser, calls>>

NextUpdate == UpdateAny \/ ToggleEdit \/ CreateShort \/ Tick

SpecUpdate == Init /\ [][NextUpdate]_vars

\* Bodies of POST: the short ones, one with an empty due_date, one that
\* fails two checks, one with an empty description and one with a
\* description of spaces.
EditCreates ==
  ShortBodies \cup
  { [name |-> Str(NameA), description |-> Undefined, due_date |-> Str(<<>>)],
    [name |-> Str(Blank), description |-> Str(DescAb), due_date |-> Str(InvalidDate)],
    [name |-> Str(NameA), description |-> Str(<<>>), due_date |-> JsNull],
    [name |-> Str(NameB), description |-> Str(Blank), due_date |-> Undefined] }

\* The four operations on an id, under ids of every kind, among creates and
\* lists.
GetEdit == \E id \in EditIds : GetItem(id) /\ UNCHANGED <<browser, calls>>
CreateEdit == \E body \in EditCreates : CreateItem(body) /\ UNCHANGED <<browser, calls>>
UpdateEdit == \E id \in EditIds, body \in EditBodies : UpdateItem(id, body) /\ UNCHANGED <<browser, calls>>
DeleteEdit == \E id \in EditIds : DeleteItem(id) /\ UNCHANGED <<browser, calls>>

NextEdit ==
  List \/ GetEdit \/ CreateEdit \/ UpdateEdit \/ ToggleEdit \/ DeleteEdit \/ Tick

SpecEdit == Init /\ [][NextEdit]_vars

(***************************************************************************)
(* The claims.                                                             *)
(***************************************************************************)
\* The position of row r in a sequence that holds it once.
Pos(rows, r) == CHOOSE k \in 1..Len(rows) : rows[k] = r

\* rows holds exactly the members of S, once each, in the order they have in base.
KeepsExactly(rows, base, S) ==
  /\ Range(rows) = S
  /\ Len(rows) = Cardinality(S)
  /\ \A i, j \in 1..Len(rows) : i < j => Pos(base, rows[i]) < Pos(base, rows[j])

\* Whether a record passes the completion filter, as the specification words it.
PassesFilter(r, filter) ==
  IF filter = "complete" THEN r.completed = 1
  ELSE IF filter = "incomplete" THEN r.completed = 0
  ELSE TRUE

\* Whether a search parameter is absent or blank.
BlankSearch(search) == search.t # "string" \/ \A i \in 1..Len(search.v) : IsSpace(search.v[i])

\* Whether a record matches a search term, as the specification words it.
MatchesSearch(r, search) ==
  LET term == ToLowerCase(Trim(search.v))
  IN \/ Includes(ToLowerCase(r.name), term)
     \/ r.description.t = "string" /\ Includes(ToLowerCase(r.description.v), term)

\* C1: under sort=name every two adjacent records of the result are ordered
\* by their lower-cased names: ascending for order=asc, descending for
\* order=desc.
C1_NameOrderIgnoresCase ==
  (res.op = "list" /\ res.status = 200 /\ res.req.sort = "name"
     /\ res.req.order \in {"asc", "desc"}) =>
    \A i \in 1..(Len(res.rows) - 1) :
      LET c == TextCmp(ToLowerCase(res.rows[i].name), ToLowerCase(res.rows[i + 1].name))
      IN IF res.req.order = "asc" THEN c <= 0 ELSE c >= 0

\* C2: under sort=date no record without a due_date precedes a record with
\* one, whatever the order; and the records with a due_date follow each
\* other by due_date, ascending for order=asc and descending for order=desc.
C2_NullDueDatesLast ==
  (res.op = "list" /\ res.status = 200 /\ res.req.sort = "date") =>
    \A i, j \in 1..Len(res.rows) : i < j =>
      /\ res.rows[i].due_date.t = "null" => res.rows[j].due_date.t = "null"
      /\ (res.rows[i].due_date.t # "null" /\ res.rows[j].due_date.t # "null") =>
           /\ res.req.order = "asc" =>
                SqlCmp(res.rows[i].due_date, res.rows[j].due_date) <= 0
           /\ res.req.order = "desc" =>
                SqlCmp(res.rows[i].due_date, res.rows[j].due_date) >= 0

\* A descending list by date that returned two different due dates and then
\* a record without one.
C2_Witness ==
  /\ res.op = "list" /\ res.status = 200
  /\ res.req.sort = "date" /\ res.req.order = "desc"
  /\ Len(res.rows) >= 3
  /\ res.rows[1].due_date.t # "null" /\ res.rows[2].due_date.t # "null"
  /\ res.rows[1].due_date # res.rows[2].due_date
  /\ res.rows[Len(res.rows)].due_date.t = "null"

\* The bodies the handler can return for query q over the present store.
BodiesFor(q) ==
  IF PrepareThrows(getSortClause(q.sort, q.order)) THEN {}
  ELSE { applyFilters(o, q.filter, q.search) :
           o \in OrderBy(getSortClause(q.sort, q.order), items) }

\* C3: every list request is answered 200 with an array; a sort other than
\* created, date and name gives what sort=created gives, an order other than
\* asc what order=desc gives, a filter other than complete and incomplete
\* what filter=all gives.
C3_ListDegradesToDefaults ==
  res.op = "list" =>
    /\ res.status = 200
    /\ res.req.sort \notin {"created", "date", "name"} =>
         res.rows \in BodiesFor([res.req EXCEPT !.sort = "created"])
    /\ res.req.order # "asc" =>
         res.rows \in BodiesFor([res.req EXCEPT !.order = "desc"])
    /\ res.req.filter \notin {"complete", "incomplete"} =>
         res.rows \in BodiesFor([res.req EXCEPT !.filter = "all"])

\* C4: with no search, the body of a list holds exactly the records of the
\* sorted sequence that pass the filter (completed = 1 for complete,
\* completed = 0 for incomplete, every record otherwise), in the order of
\* the sorted sequence.
C4_FilterKeepsExactlyMatching ==
  (res.op = "list" /\ res.status = 200 /\ BlankSearch(res.req.search)) =>
    KeepsExactly(res.rows, res.sorted,
                 { r \in Range(res.sorted) : PassesFilter(r, res.req.filter) })

\* A list under filter=incomplete that kept some records and dropped others.
C4_Witness ==
  /\ res.op = "list" /\ res.status = 200
  /\ res.req.filter = "incomplete" /\ res.req.search = Undefined
  /\ Len(res.rows) >= 2 /\ Len(res.rows) < Len(res.sorted)

\* C5: the body of a list holds exactly the records that pass the filter and,
\* when the search is not blank, whose lower-cased name or description
\* contains the trimmed, lower-cased term, in the order of the sorted
\* sequence; under filter=incomplete every record of the body is incomplete.
C5_SearchKeepsExactlyMatching ==
  (res.op = "list" /\ res.status = 200) =>
    /\ KeepsExactly(res.rows, res.sorted,
         { r \in Range(res.sorted) :
             /\ PassesFilter(r, res.req.filter)
             /\ BlankSearch(res.req.search) \/ MatchesSearch(r, res.req.search) })
    /\ res.req.filter = "incomplete" => \A i \in 1..Len(res.rows) : res.rows[i].completed = 0

\* A search for 'SAMPLE' under filter=incomplete that returned a record
\* matching by its name alone and left out an incomplete record.
C5_Witness ==
  /\ res.op = "list" /\ res.status = 200
  /\ res.req.filter = "incomplete" /\ res.req.search = Str(SearchSample)
  /\ \E i \in 1..Len(res.rows) :
       ~Includes(ToLowerCase(res.rows[i].description.v), ToLowerCase(SearchSample))
  /\ \E r \in Range(res.sorted) : r.completed = 0 /\ r \notin Range(res.rows)

\* Whether the step is the handling of a create that succeeded.
CreateSucceeds == nreq' = nreq + 1 /\ res'.op = "create" /\ res'.status = 201

\* The ids of the rows of a table.
Ids(tbl) == { tbl[i].id : i \in DOMAIN tbl }

\* The decimal text of a natural number, as a client puts it in the URL.
RECURSIVE ToDecimal(_)
ToDecimal(n) ==
  IF n < 10 THEN <<48 + n>> ELSE ToDecimal(n \div 10) \o <<48 + (n % 10)>>

\* C6: a create is answered by the first check that fails, in this order:
\* name missing, not a string or blank after trim: 400 "Item name is
\* required"; trimmed name longer than 200: 400 "Item name must not exceed
\* 200 characters"; due_date neither absent nor null and not a valid date:
\* 400 "Invalid due date format"; otherwise 201.
C6_CreateValidationOrder ==
  res.op = "create" =>
    LET b == res.req
        nameBad == b.name.t # "string" \/ Trim(b.name.v) = <<>>
        tooLong == Len(Trim(b.name.v)) > MaxNameLen
        dueBad == b.due_date.t \notin {"undefined", "null"} /\ ~DateParses(b.due_date.v)
    IN IF nameBad THEN res.status = 400 /\ res.error = "Item name is required"
       ELSE IF tooLong
         THEN res.status = 400 /\ res.error = "Item name must not exceed 200 characters"
       ELSE IF dueBad THEN res.status = 400 /\ res.error = "Invalid due date format"
       ELSE res.status = 201

\* C7: every stored name is non-empty, holds a character that is no white
\* space, equals its own trimmed value and is at most 200 characters long.
C7_StoredNamesTrimmedAndBounded ==
  \A i \in DOMAIN items :
    /\ items[i].name # <<>>
    /\ \E k \in 1..Len(items[i].name) : ~IsSpace(items[i].name[k])
    /\ Trim(items[i].name) = items[i].name
    /\ Len(items[i].name) <= MaxNameLen

\* An update that was sent ' b ' and a create that was sent a padded name of
\* 200 characters have both been stored.
C7_Witness ==
  /\ \E i \in DOMAIN items : items[i].id <= Len(initialItems) /\ items[i].name = <<98>>
  /\ \E i \in DOMAIN items : items[i].id > Len(initialItems) /\ Len(items[i].name) = MaxNameLen
  /\ res.op = "create" /\ res.status = 201 /\ res.req.name = Str(Name200Padded)

\* C8: a create that succeeds adds one record, with completed = 0, equal
\* created_at and updated_at, the trimmed name and an id no stored record
\* has; it answers 201 with that record; the records stored before are
\* the other records stored after.
C8_CreateAddsOneRecord ==
  [][CreateSucceeds =>
       /\ Len(res'.rows) = 1
       /\ res'.rows[1].completed = 0
       /\ res'.rows[1].created_at = res'.rows[1].updated_at
       /\ res'.rows[1].name = Trim(res'.req.name.v)
       /\ res'.rows[1].id \notin Ids(items)
       /\ Len(items') = Len(items) + 1
       /\ Range(items') = Range(items) \cup {res'.rows[1]}]_vars

\* A create sent ' b ' with a description and a due date has answered 201
\* with a fourth record.
C8_Witness ==
  /\ res.op = "create" /\ res.status = 201
  /\ res.req.name = Str(NameBPadded) /\ res.req.due_date = Str(Due0601)
  /\ Len(items) = Len(initialItems) + 1
  /\ res.rows[1] \in Range(items)

\* C9: the id a successful create returns is the id of no record that
\* exists or has ever existed.
C9_IdsNeverReused ==
  [][CreateSucceeds => res'.rows[1].id \notin everIds]_vars

\* A create has succeeded after the record with the largest id was deleted.
C9_Witness ==
  /\ res.op = "create" /\ res.status = 201
  /\ Len(initialItems) \notin Ids(items)
  /\ res.rows[1].id = Len(initialItems) + 1

\* C10: a get-one of the id a create has just returned answers 200 with a
\* record equal to the created one in every field.
C10_CreateThenGetRoundTrip ==
  [][(/\ res.op = "create" /\ res.status = 201
      /\ nreq' = nreq + 1 /\ res'.op = "get"
      /\ res'.req.id = ToDecimal(res.rows[1].id)) =>
       res'.status = 200 /\ res'.rows = res.rows]_vars

\* A get-one has returned a record a create made; a run holds two requests,
\* so the create was the request before.
C10_Witness ==
  /\ res.op = "get" /\ res.status = 200
  /\ nreq = 2
  /\ res.rows[1].id > Len(initialItems)
  /\ res.rows[1].name = NameA

\* The body of a create or of an update, from the response that records it.
BodyOf(r) == IF r.op = "update" THEN r.req.body ELSE r.req

\* Whether the response is that of a write that succeeded.
Succeeded(r) == r.status \in {200, 201}

\* C11: a create or update whose due_date is neither absent nor null stores
\* the due_date exactly as given when it is a valid date, and is rejected
\* (400 "Invalid due date format", unless an earlier check rejects it) when
\* it is not; no such request, the empty string included, succeeds with
\* another due_date stored.
C11_DueDateStoredOrRejected ==
  (res.op \in {"create", "update"}
     /\ BodyOf(res).due_date.t \notin {"undefined", "null"}) =>
    IF DateParses(BodyOf(res).due_date.v)
      THEN Succeeded(res) => res.rows[1].due_date = BodyOf(res).due_date
      ELSE /\ ~Succeeded(res)
           /\ res.error \in {"Invalid due date format", "Item name is required",
                             "Item name must not exceed 200 characters",
                             "Valid item ID is required", "Item not found"}

\* Whether the step is the handling of a get-one, update, toggle or delete.
IdRequest == nreq' = nreq + 1 /\ res'.op \in {"get", "update", "toggle", "delete"}

\* An id that holds no digit, such as 'abc'.
NonNumericId(id) == \A i \in 1..Len(id) : ~IsDigit(id[i])

\* C12: a get-one, update, toggle or delete of an id that is no number
\* answers 400 "Valid item ID is required", whatever the store and the body
\* hold, and leaves the store as it was.
C12_NonNumericIdRejected ==
  [][(IdRequest /\ NonNumericId(res'.req.id)) =>
       /\ res'.status = 400
       /\ res'.error = "Valid item ID is required"
       /\ items' = items]_vars

\* An update of 'abc' with a body that passes validation has answered 400,
\* after a request that changed the store.
C12_Witness ==
  /\ res.op = "update" /\ res.req.id = IdAbc
  /\ res.status = 400 /\ res.error = "Valid item ID is required"
  /\ ValidateItem(res.req.body.name, res.req.body.due_date) = ""
  /\ items # SeedRows

\* Whether the step is the handling of an update.
UpdateRequest == nreq' = nreq + 1 /\ res'.op = "update"

\* Whether a table holds a record whose id the text denotes.
Resolves(tbl, id) == \E i \in DOMAIN tbl : ApplyNumericAffinity(Str(id)) = Num(tbl[i].id)

\* C13: an update is answered by the first check that fails, in this order:
\* the id is no number: 400 "Valid item ID is required"; the id resolves to
\* no record: 404 "Item not found", whatever the body holds; the body fails
\* the validation of create: 400 with the message create gives; otherwise 200.
C13_UpdateValidationOrder ==
  [][UpdateRequest =>
       LET id == res'.req.id
           body == res'.req.body
       IN IF NonNumericId(id)
            THEN res'.status = 400 /\ res'.error = "Valid item ID is required"
          ELSE IF ~Resolves(items, id)
            THEN res'.status = 404 /\ res'.error = "Item not found"
          ELSE IF ValidateItem(body.name, body.due_date) # ""
            THEN /\ res'.status = 400
                 /\ res'.error = ValidateItem(body.name, body.due_date)
          ELSE res'.status = 200]_vars

\* An update of an id that no record has, with a blank name and an invalid
\* due_date, has answered 404.
C13_Witness ==
  /\ res.op = "update" /\ res.status = 404 /\ res.error = "Item not found"
  /\ res.req.body.name = Str(Blank) /\ res.req.body.due_date = Str(InvalidDate)
  /\ ~Resolves(items, res.req.id)

\* C14: an update that succeeds stores completed = 1 when the body's
\* completed is the boolean true or the number 1, and 0 for every other
\* value (false, 0, absent, null, a string, another number); and every
\* stored record has completed 0 or 1.
C14_CompletedCoercion ==
  /\ (res.op = "update" /\ res.status = 200) =>
       res.rows[1].completed =
         (IF res.req.body.completed \in {Bool(TRUE), Num(1)} THEN 1 ELSE 0)
  /\ \A i \in DOMAIN items : items[i].completed \in {0, 1}

\* An update sent completed '1' (a string) to the seed record that was
\* complete has stored 0.
C14_Witness ==
  /\ res.op = "update" /\ res.status = 200
  /\ res.req.body.completed = Str(TextOne)
  /\ res.rows[1].id = 2 /\ res.rows[1].completed = 0
  /\ SeedRows[2].completed = 1

\* Whether the step is the handling of an update that succeeded.
UpdateSucceeds == UpdateRequest /\ res'.status = 200

\* A value of the body as the record is to hold it: null when the body
\* leaves it out or sends null, the value itself otherwise.
GivenOrNull(x) == IF x.t \in {"undefined", "null"} THEN JsNull ELSE x

\* The positions of the records whose id the text denotes.
Denoted(tbl, id) == { i \in DOMAIN tbl : ApplyNumericAffinity(Str(id)) = Num(tbl[i].id) }

\* C15: an update that succeeds leaves the record with the body's name
\* (trimmed), description, completed (coerced as C14 says) and due_date, with
\* updated_at set to the present time, and with the id and created_at it
\* had; every other record is as it was; the response is 200 with the record.
C15_UpdateOverwritesFourFields ==
  [][UpdateSucceeds =>
       LET body == res'.req.body
       IN /\ Len(res'.rows) = 1
          /\ DOMAIN items' = DOMAIN items
          /\ \E i \in Denoted(items, res'.req.id) :
               /\ items'[i] = res'.rows[1]
               /\ items'[i].id = items[i].id
               /\ items'[i].created_at = items[i].created_at
               /\ items'[i].updated_at = clock
               /\ items'[i].name = Trim(body.name.v)
               /\ items'[i].description = GivenOrNull(body.description)
               /\ items'[i].completed =
                    (IF body.completed \in {Bool(TRUE), Num(1)} THEN 1 ELSE 0)
               /\ items'[i].due_date = GivenOrNull(body.due_date)
               /\ \A j \in DOMAIN items : j # i => items'[j] = items[j]]_vars

\* Whether the step is the handling of a toggle.
ToggleRequest == nreq' = nreq + 1 /\ res'.op = "toggle"

\* C16: a toggle of an id that denotes a record answers 200 with the
\* record, whose completed went from 0 to 1 or from 1 to 0 and whose
\* updated_at is the present time; its id, name, description, due_date and
\* created_at and every other record are as they were. A toggle of a numeric
\* id that denotes no record answers 404 "Item not found".
C16_ToggleFlipsCompletedOnly ==
  [][ToggleRequest =>
       /\ Resolves(items, res'.req.id) =>
            /\ res'.status = 200 /\ Len(res'.rows) = 1
            /\ DOMAIN items' = DOMAIN items
            /\ \E i \in Denoted(items, res'.req.id) :
                 /\ items'[i] = res'.rows[1]
                 /\ items'[i].completed = 1 - items[i].completed
                 /\ items'[i].updated_at = clock
                 /\ items'[i] = [items[i] EXCEPT !.completed = items'[i].completed,
                                                 !.updated_at = items'[i].updated_at]
                 /\ \A j \in DOMAIN items : j # i => items'[j] = items[j]
       /\ (~NonNumericId(res'.req.id) /\ ~Resolves(items, res'.req.id)) =>
            /\ res'.status = 404 /\ res'.error = "Item not found"
            /\ items' = items]_vars

\* The seed record that was complete has been toggled to incomplete a second
\* after it was made, as the second request of a run, with every other
\* record as seeded.
C16_Witness ==
  /\ res.op = "toggle" /\ res.status = 200
  /\ res.rows[1].id = 2 /\ res.rows[1].completed = 0
  /\ res.rows[1].updated_at > res.rows[1].created_at
  /\ res.rows[1].name = SampleTask2
  /\ nreq = 2 /\ \A i \in DOMAIN items : i # 2 => items[i] = SeedRows[i]

\* Whether the step is a toggle that succeeds on the record that the toggle
\* answered just before it succeeded on: no request lies between the two.
SecondToggle ==
  /\ res.op = "toggle" /\ res.status = 200
  /\ ToggleRequest /\ res'.status = 200
  /\ res'.rows[1].id = res.rows[1].id

\* C17 as claimed: the second of two consecutive toggles of a record
\* restores completed to its value before the first, and updated_at is later
\* after the first toggle than before it, and later after the second than
\* after the first.
C17_TogglePairAdvancesUpdatedAt ==
  [][SecondToggle =>
       /\ res'.rows[1].completed = res.existing[1].completed
       /\ res.rows[1].updated_at > res.existing[1].updated_at
       /\ res'.rows[1].updated_at > res.rows[1].updated_at]_vars

\* C17 as amended: the second of two consecutive toggles of a record
\* restores completed to its value before the first, which the first had
\* changed; each of the two sets updated_at to the time at which it runs,
\* in whole seconds, so that two toggles within one second leave the same
\* updated_at.
C17_TogglePairRestoresCompleted ==
  [][SecondToggle =>
       /\ res'.rows[1].completed = res.existing[1].completed
       /\ res.existing[1].completed # res.rows[1].completed
       /\ res'.existing[1].updated_at = res.rows[1].updated_at
       /\ res'.rows[1].updated_at = clock]_vars

\* A seed record has been toggled twice, the second time a second after it
\* was made: it is as seeded but for updated_at, which is later than after
\* the first toggle.
C17_Witness ==
  /\ res.op = "toggle" /\ res.status = 200 /\ nreq = 2
  /\ res.existing[1].updated_at < res.rows[1].updated_at
  /\ res.existing[1].completed # res.rows[1].completed
  /\ \E i \in 1..Len(initialItems) :
       res.rows[1] = [SeedRows[i] EXCEPT !.updated_at = clock]

\* The ids of the records that were deleted: every id a record has had that
\* no record has now.
DeletedIds == everIds \ Ids(items)

\* C18: an id that was deleted stays deleted, whatever requests follow; a
\* get-one, update, toggle or delete of an id that was deleted answers 404
\* "Item not found" and changes no record; and no list returns a record with
\* an id that was deleted.
C18_DeleteIsTerminal ==
  [][/\ DeletedIds \subseteq everIds' \ Ids(items')
     /\ \A k \in DeletedIds :
          /\ (IdRequest /\ ApplyNumericAffinity(Str(res'.req.id)) = Num(k)) =>
               /\ res'.status = 404 /\ res'.error = "Item not found"
               /\ items' = items
          /\ (nreq' = nreq + 1 /\ res'.op = "list") =>
               \A i \in 1..Len(res'.rows) : res'.rows[i].id # k]_vars

\* A delete of the record with the largest id has succeeded, and a get-one
\* of that id has then answered 404.
C18_Witness ==
  /\ res.op = "get" /\ res.status = 404
  /\ res.req.id = ToDecimal(Len(initialItems))
  /\ Len(initialItems) \in DeletedIds

\* Whether the step is the handling of a delete that succeeded.
DeleteSucceeds == nreq' = nreq + 1 /\ res'.op = "delete" /\ res'.status = 200

\* C19: a delete that succeeds answers 200 with the message "Item deleted
\* successfully" and an id; the store loses exactly one record, the one with
\* that id, and keeps every other record as it was.
C19_DeleteRemovesTheOneReported ==
  [][DeleteSucceeds =>
       /\ res'.message = "Item deleted successfully"
       /\ Len(items') = Len(items) - 1
       /\ \E i \in DOMAIN items :
            /\ items[i].id = res'.id
            /\ items' = SubSeq(items, 1, i - 1) \o SubSeq(items, i + 1, Len(items))]_vars

\* Whether the step is the handling of a create, update, toggle or delete
\* that was answered with an error of the client.
WriteRejected ==
  /\ nreq' = nreq + 1
  /\ res'.op \in {"create", "update", "toggle", "delete"}
  /\ res'.status \in {400, 404}

\* C20: a create, update, toggle or delete that is answered 400 or 404
\* leaves the store as it was: the same records with the same fields, and
\* the same next id.
C20_RejectedWritesChangeNothing ==
  [][WriteRejected => items' = items /\ seq' = seq]_vars

\* An update of a record that exists, a second after it was made, has been
\* answered 400 for its due_date, and the store is as seeded.
C20_Witness ==
  /\ res.op = "update" /\ res.status = 400
  /\ res.error = "Invalid due date format"
  /\ Resolves(items, res.req.id)
  /\ clock > 0 /\ items = SeedRows

\* C21: in every state every record has updated_at >= created_at, and every
\* step leaves each record that it keeps with the created_at it had.
C21_CreatedAtFixedAndNotAfterUpdatedAt ==
  [][/\ \A i \in DOMAIN items : items[i].updated_at >= items[i].created_at
     /\ \A j \in DOMAIN items' : items'[j].updated_at >= items'[j].created_at
     /\ \A i \in DOMAIN items, j \in DOMAIN items' :
          items'[j].id = items[i].id => items'[j].created_at = items[i].created_at]_vars

\* A seed record has been updated a second after it was made: updated_at is
\* later than created_at, which is what it was.
C21_Witness ==
  /\ res.op = "update" /\ res.status = 200
  /\ res.rows[1].updated_at > res.rows[1].created_at
  /\ \E i \in DOMAIN SeedRows :
       /\ SeedRows[i].id = res.rows[1].id
       /\ SeedRows[i].created_at = res.rows[1].created_at
  /\ res.rows[1] \in Range(items)

\* An id that starts with a digit and is not made of digits alone.
DigitsThenOther(id) == id # <<>> /\ IsDigit(id[1]) /\ ~AllDigits(id)

\* C22: a get-one, update, toggle or delete of an id that starts with digits
\* and is no integer as a whole answers 400 "Valid item ID is required"; it
\* returns no record and leaves the store as it was.
C22_PartlyNumericIdRejected ==
  [][(IdRequest /\ DigitsThenOther(res'.req.id)) =>
       /\ res'.status = 400
       /\ res'.error = "Valid item ID is required"
       /\ res'.rows = <<>>
       /\ items' = items]_vars

DescriptionWritten ==
  nreq' = nreq + 1 /\ res'.op \in {"create", "update"} /\ Succeeded(res')

\* C25: a create or an update that succeeds stores the description the body
\* carries exactly as given, whatever string it is, the empty one and one of
\* spaces included; a description that is absent or null is stored as null.
C25_DescriptionStoredAsGiven ==
  [][DescriptionWritten =>
       /\ Len(res'.rows) = 1
       /\ res'.rows[1] \in Range(items')
       /\ res'.rows[1].description = GivenOrNull(BodyOf(res').description)]_vars

(***************************************************************************)
(* The write handlers statement by statement.  Each is a synchronous       *)
(* callback over synchronous better-sqlite3 calls: its SELECT, its UPDATE  *)
(* or DELETE and its second SELECT are steps of one activation, and calls  *)
(* holds the activations in the order the requests arrived.                *)
(***************************************************************************)
\* A request the server has received and not yet dispatched.
Received(op, id, body) ==
  [op |-> op, id |-> id, body |-> body, pc |-> "pending", existing |-> <<>>,
   status |-> 0, rows |-> <<>>]

\* The activation h ended with a response.
Finish(h, status, rows) ==
  [calls EXCEPT ![h].pc = "done", ![h].status = status, ![h].rows = rows]

\* A loop that dispatches a request while a callback is between two statements.
EventLoopFreeAlways == TRUE

\* Node dispatches a request only when no callback is running: the handlers
\* hold no await, so one runs from its first statement to its response.
EventLoopFree == \A h \in DOMAIN calls : calls[h].pc \in {"pending", "done"}

\* The ids and the body of the racing requests.
RaceIds == {<<50>>, <<51>>, IdAbc}
RaceBody ==
  [name |-> Str(NameB), description |-> Undefined, completed |-> Num(1),
   due_date |-> Undefined]

\* A client sends an update, a toggle or a delete.
Arrive ==
  /\ Len(calls) < MaxReq
  /\ \E op \in {"update", "toggle", "delete"}, id \in RaceIds :
       calls' = Append(calls, Received(op, id, IF op = "update" THEN RaceBody ELSE <<>>))
  /\ UNCHANGED <<items, seq, clock, res, everIds, nreq, browser>>

\* The handler from its start through the SELECT of existingItem and, for
\* PUT, the validation of the body.
Check(h) ==
  /\ calls[h].pc = "pending"
  /\ EventLoopFree
  /\ LET c == calls[h]
         found == SelectById(items, Str(c.id))
     IN calls' =
          IF InvalidId(c.id) THEN Finish(h, 400, <<>>)
          ELSE IF found = <<>> THEN Finish(h, 404, <<>>)
          ELSE IF c.op = "update" /\ ValidateItem(c.body.name, c.body.due_date) # ""
            THEN Finish(h, 400, <<>>)
          ELSE [calls EXCEPT ![h].pc = "checked", ![h].existing = found]
  /\ UNCHANGED <<items, seq, clock, res, everIds, nreq, browser>>

\* stmt.run: the UPDATE of PUT, the UPDATE of PATCH with the value computed
\* from existingItem, or the DELETE, which answers by result.changes.
Write(h) ==
  /\ calls[h].pc = "checked"
  /\ LET c == calls[h]
         hit == Matching(items, Str(c.id))
     IN /\ items' =
             IF c.op = "delete"
               THEN SelectSeq(items, LAMBDA r : SelectById(<<r>>, Str(c.id)) = <<>>)
               ELSE [i \in DOMAIN items |->
                       IF i \notin hit THEN items[i]
                       ELSE IF c.op = "update" THEN UpdatedRow(items[i], c.body)
                       ELSE [items[i] EXCEPT
                               !.completed = Toggled(c.existing[1].completed),
                               !.updated_at = CurrentTimestamp]]
        /\ calls' =
             IF c.op = "delete"
               THEN Finish(h, IF hit # {} THEN 200 ELSE 404, <<>>)
               ELSE [calls EXCEPT ![h].pc = "written"]
  /\ UNCHANGED <<seq, clock, res, everIds, nreq, browser>>

\* The SELECT of updatedItem and res.json(updatedItem).
ReadBack(h) ==
  /\ calls[h].pc = "written"
  /\ calls' = Finish(h, 200, SelectById(items, Str(calls[h].id)))
  /\ UNCHANGED <<items, seq, clock, res, everIds, nreq, browser>>

NextRace ==
  \/ Arrive
  \/ \E h \in DOMAIN calls : Check(h)
  \/ \E h \in DOMAIN calls : Write(h)
  \/ \E h \in DOMAIN calls : ReadBack(h)
  \/ Tick

SpecRace == Init /\ [][NextRace]_vars

\* Whether an activation is between its existence check and its response.
Midway(c) == c.pc \in {"checked", "written"}

\* Whether the id of an activation denotes the record k.
Targets(c, k) == ApplyNumericAffinity(Str(c.id)) = Num(k)

\* The toggles of record k that have written, in a store.
TogglesWritten(cs, k) ==
  { h \in DOMAIN cs : /\ cs[h].op = "toggle" /\ Targets(cs[h], k)
                      /\ cs[h].pc = "written" \/ cs[h].status = 200 }

\* Whether record k is the target of no update.
NeverUpdated(cs, k) == \A h \in DOMAIN cs : ~(cs[h].op = "update" /\ Targets(cs[h], k))

\* C24: however the requests arrive, no other request runs between the
\* existence check, the write and the read-back of an update, a toggle or a
\* delete; an update or a toggle that answers 200 answers with the one
\* record as the store holds it (racing with a delete it answers that or
\* 404); and a record that only toggles touched has its original completed
\* after two of them, the other value after one.
C24_HandlersRunToCompletion ==
  [][/\ \A h \in DOMAIN calls :
          Midway(calls[h]) => \A g \in DOMAIN calls \ {h} : calls'[g] = calls[g]
     /\ \A h \in DOMAIN calls' :
          (calls'[h].pc = "done" /\ calls'[h].op \in {"update", "toggle"}) =>
            \/ calls'[h].status \in {400, 404} /\ calls'[h].rows = <<>>
            \/ /\ calls'[h].status = 200 /\ Len(calls'[h].rows) = 1
               /\ Targets(calls'[h], calls'[h].rows[1].id)
               /\ calls[h].pc = "written" => calls'[h].rows[1] \in Range(items')
     /\ \A i \in DOMAIN items' :
          LET k == items'[i].id
          IN NeverUpdated(calls', k) =>
               items'[i].completed =
                 (SeedRows[k].completed + Cardinality(TogglesWritten(calls', k))) % 2]_vars

\* A toggle that arrived before a delete of the same record and ran after
\* it: the delete answered 200 and the toggle 404.
C24_Witness ==
  \E h, g \in DOMAIN calls :
    /\ h < g
    /\ calls[h].op = "toggle" /\ calls[g].op = "delete" /\ calls[h].id = calls[g].id
    /\ calls[g].pc = "done" /\ calls[g].status = 200
    /\ calls[h].pc = "done" /\ calls[h].status = 404

(***************************************************************************)
(* The item card.  Times are seconds since the epoch, UTC; the three       *)
(* expressions of the card that read the clock read it one after another.  *)
(***************************************************************************)
\* addDays(date, 1), where the local day has 24 hours.
Day == 86400

\* new Date(s).getTime() for the ISO forms 'YYYY-MM-DD' (midnight UTC) and
\* 'YYYY-MM-DDTHH:MM:SS.sssZ', in whole seconds.
TimeValue(s) ==
  LET y0 == DigitsValue(SubSeq(s, 1, 4))
      m == DigitsValue(SubSeq(s, 6, 7))
      d == DigitsValue(SubSeq(s, 9, 10))
      y == IF m <= 2 THEN y0 - 1 ELSE y0
      era == y \div 400
      yoe == y - era * 400
      doy == (153 * (IF m > 2 THEN m - 3 ELSE m + 9) + 2) \div 5 + d - 1
      doe == yoe * 365 + yoe \div 4 - yoe \div 100 + doy
      days == era * 146097 + doe - 719468
      clockTime == IF Len(s) = 24
                     THEN DigitsValue(SubSeq(s, 12, 13)) * 3600
                            + DigitsValue(SubSeq(s, 15, 16)) * 60
                            + DigitsValue(SubSeq(s, 18, 19))
                     ELSE 0
  IN days * 86400 + clockTime

\* A test that also counts the present instant as past.
isPastOrPresent(time, now) == time <= now

\* date-fns isPast: the date is before Date.now().
isPast(time, now) == time < now

\* date-fns isWithinInterval: both ends belong to the interval.
isWithinInterval(time, start, end) == time >= start /\ time <= end

\* What ItemCard computes for an item when Date.now() gives t1 inside isPast
\* and new Date() gives t2 and then t3: isOverdue, isDueSoon and the chip of
\* getDueDateChip.
ItemCard(item, t1, t2, t3) ==
  LET due == item.due_date
      isOverdue == /\ Truthy(due)
                   /\ isPast(TimeValue(due.v), t1)
                   /\ ~Truthy(Num(item.completed))
      isDueSoon == /\ Truthy(due)
                   /\ ~Truthy(Num(item.completed))
                   /\ isWithinInterval(TimeValue(due.v), t2, t3 + Day)
  IN [item |-> item, clocks |-> <<t1, t2, t3>>, isOverdue |-> isOverdue,
      isDueSoon |-> isDueSoon,
      chip |-> IF ~Truthy(due) THEN "none"
               ELSE IF isOverdue THEN "Overdue"
               ELSE IF isDueSoon THEN "Due Soon"
               ELSE "date"]

\* Items as the list endpoint returns them: either status with no due date
\* and with due dates of both ISO forms.
CardItems ==
  { [SeedRows[1] EXCEPT !.completed = c, !.due_date = d] :
      c \in {0, 1},
      d \in {JsNull, Str(SampleDue1), Str(SampleDue3), Str(Due0601)} }

\* Readings of the clock around the due dates: a day and a second before, a
\* day before, a second before, the instant itself and a second after.
CardClocks ==
  { TimeValue(d) + k : d \in {SampleDue1, Due0601},
                       k \in {0 - Day - 1, 0 - Day, 0 - 1, 0, 1} }

\* One render of a card; a render owes nothing to the one before, so one is
\* followed.
RenderCard ==
  /\ card = <<>>
  /\ \E item \in CardItems, t1, t2, t3 \in CardClocks :
       /\ t1 <= t2 /\ t2 <= t3
       /\ card' = ItemCard(item, t1, t2, t3)
  /\ UNCHANGED <<items, seq, clock, res, everIds, nreq, app, hook, net, calls>>

SpecCard == Init /\ [][RenderCard]_vars

MaxSent == 4

\* `/api/items?${new URLSearchParams(queryParams)}` for the parameters of
\* App, whose search is empty.
QueryParams(filter) ==
  [sort |-> app.sort, order |-> app.order, filter |-> filter, search |-> Undefined]

\* A request on its way to the server.
Sent(op, req) ==
  [op |-> op, req |-> req, pc |-> "sent", status |-> 0, rows |-> <<>>, error |-> ""]

\* Whether the browser may send one more request, and one more write.
CanSend == Len(net) < MaxSent
CanWrite ==
  CanSend /\ Cardinality({ h \in DOMAIN net : net[h].op # "list" }) < MaxReq

\* A Dialog of the component library is modal: what lies under it takes no click.
NoDialog == ~app.dialogOpen /\ ~app.confirmDialogOpen

\* The cards are rendered when the hook is not loading.
CardsShown == app.mounted /\ ~hook.loading /\ NoDialog

\* The first effects, in the order of their declaration: the fetch of the
\* hook without parameters, the fetch of App with its initial parameters,
\* and the load of the saved filter, after which App renders again and
\* fetches with it.  localStorage holds no 'itemFilter', or 'complete'.
Mount ==
  /\ ~app.mounted
  /\ \E saved \in {Absent, "complete"} :
       LET f == IF saved = Absent THEN app.filter ELSE saved
           noParams == [sort |-> Absent, order |-> Absent, filter |-> Absent,
                        search |-> Undefined]
       IN /\ app' = [app EXCEPT !.mounted = TRUE, !.filter = f]
          /\ net' = net \o <<Sent("list", noParams), Sent("list", QueryParams(app.filter))>>
                        \o (IF f # app.filter THEN <<Sent("list", QueryParams(f))>> ELSE <<>>)
  /\ hook' = [hook EXCEPT !.loading = TRUE]
  /\ UNCHANGED <<items, seq, clock, res, everIds, nreq, card, calls>>

\* onFilterChange: setFilter, then the effect that fetches with the new filter.
setFilter ==
  /\ app.mounted /\ NoDialog /\ CanSend
  /\ \E f \in {"all", "incomplete", "complete"} :
       /\ f # app.filter
       /\ app' = [app EXCEPT !.filter = f]
       /\ net' = Append(net, Sent("list", QueryParams(f)))
  /\ hook' = [hook EXCEPT !.loading = TRUE]
  /\ UNCHANGED <<items, seq, clock, res, everIds, nreq, card, calls>>

\* The records whose edit and delete buttons the user clicks.
ClickedIds == {2, 3}

\* The add button, or the edit button of a card.
handleOpenDialog ==
  /\ app.mounted /\ NoDialog
  /\ \E item \in {<<>>} \cup { <<hook.items[i]>> : i \in { j \in DOMAIN hook.items :
                                                        hook.items[j].id \in ClickedIds } } :
       /\ item # <<>> => CardsShown
       /\ app' = [app EXCEPT !.editingItem = item, !.dialogOpen = TRUE]
  /\ UNCHANGED <<items, seq, clock, res, everIds, nreq, hook, net, card, calls>>

handleCloseDialog ==
  /\ app.dialogOpen
  /\ app' = [app EXCEPT !.dialogOpen = FALSE, !.editingItem = <<>>]
  /\ UNCHANGED <<items, seq, clock, res, everIds, nreq, hook, net, card, calls>>

\* A save that closes the dialog and announces success as it sends.
handleSaveItemClosesAtOnce ==
  /\ app.dialogOpen /\ CanWrite
  /\ net' = Append(net, Sent("create", [name |-> Str(NameA), description |-> JsNull,
                                        due_date |-> JsNull]))
  /\ app' = [app EXCEPT !.successMessage = "Item added successfully",
                        !.dialogOpen = FALSE, !.editingItem = <<>>]
  /\ UNCHANGED <<items, seq, clock, res, everIds, nreq, hook, card, calls>>

\* handleSaveItem up to its await: updateItem or createItem sends the
\* request.  The dialog passes a trimmed name, a description or null and a
\* due date or null.
handleSaveItem ==
  /\ app.dialogOpen /\ CanWrite
  /\ \E form \in {[name |-> Str(NameA), description |-> JsNull, due_date |-> JsNull]} :
       net' = Append(net,
                IF app.editingItem # <<>>
                  THEN Sent("update",
                         [id |-> app.editingItem[1].id,
                          body |-> [name |-> form.name, description |-> form.description,
                                    completed |-> Num(app.editingItem[1].completed),
                                    due_date |-> form.due_date]])
                  ELSE Sent("create", form))
  /\ UNCHANGED <<items, seq, clock, res, everIds, nreq, app, hook, card, calls>>

\* handleToggleComplete up to its await: the checkbox of a card.
handleToggleComplete ==
  /\ CardsShown /\ CanWrite
  /\ \E i \in DOMAIN hook.items :
       net' = Append(net, Sent("toggle", [id |-> hook.items[i].id]))
  /\ UNCHANGED <<items, seq, clock, res, everIds, nreq, app, hook, card, calls>>

\* The delete button of a card.
handleDeleteClick ==
  /\ CardsShown
  /\ \E i \in DOMAIN hook.items :
       /\ hook.items[i].id \in ClickedIds
       /\ app' = [app EXCEPT !.itemToDelete = <<hook.items[i].id>>,
                             !.confirmDialogOpen = TRUE]
  /\ UNCHANGED <<items, seq, clock, res, everIds, nreq, hook, net, card, calls>>

\* handleConfirmDelete up to its await: the Delete button of the dialog.
handleConfirmDelete ==
  /\ app.confirmDialogOpen /\ CanWrite
  /\ net' = Append(net, Sent("delete", [id |-> app.itemToDelete[1]]))
  /\ UNCHANGED <<items, seq, clock, res, everIds, nreq, app, hook, card, calls>>

\* A cancel that closes the dialog and keeps the item.
handleCancelDeleteKeepsItem ==
  /\ app.confirmDialogOpen
  /\ app' = [app EXCEPT !.confirmDialogOpen = FALSE]
  /\ UNCHANGED <<items, seq, clock, res, everIds, nreq, hook, net, card, calls>>

\* The Cancel button of the dialog, or a click outside it.
handleCancelDelete ==
  /\ app.confirmDialogOpen
  /\ app' = [app EXCEPT !.confirmDialogOpen = FALSE, !.itemToDelete = <<>>]
  /\ UNCHANGED <<items, seq, clock, res, everIds, nreq, hook, net, card, calls>>

\* app.get('/api/items') for a request of the browser.
ServeList ==
  /\ \E h \in DOMAIN net :
       /\ net[h].pc = "sent" /\ net[h].op = "list"
       /\ \E sorted \in OrderBy(getSortClause(net[h].req.sort, net[h].req.order), items) :
            net' = [net EXCEPT ![h].pc = "answered", ![h].status = 200,
                               ![h].rows = applyFilters(sorted, net[h].req.filter,
                                                        net[h].req.search)]
  /\ UNCHANGED <<items, seq, clock, res, everIds, nreq, app, hook, card, calls>>

\* POST, PUT, PATCH or DELETE for a request of the browser; the id of the
\* URL is the decimal text of the number.
ServeWrite ==
  /\ \E h \in DOMAIN net :
       /\ net[h].pc = "sent" /\ net[h].op # "list"
       /\ CASE net[h].op = "create" -> CreateItem(net[h].req)
            [] net[h].op = "update" -> UpdateItem(ToDecimal(net[h].req.id), net[h].req.body)
            [] net[h].op = "toggle" -> ToggleItem(ToDecimal(net[h].req.id))
            [] net[h].op = "delete" -> DeleteItem(ToDecimal(net[h].req.id))
       /\ net' = [net EXCEPT ![h].pc = "answered", ![h].status = res'.status,
                             ![h].rows = res'.rows, ![h].error = res'.error]
  /\ UNCHANGED <<app, hook, card, calls>>

\* fetch rejects under a write: the request does not reach the server.
NetworkError ==
  /\ \E h \in DOMAIN net :
       /\ net[h].pc = "sent" /\ net[h].op # "list"
       /\ net' = [net EXCEPT ![h].pc = "answered", ![h].error = "Failed to fetch"]
  /\ UNCHANGED <<items, seq, clock, res, everIds, nreq, app, hook, card, calls>>

\* response.ok
Ok(x) == x.status \in 200..299

\* fetchItems after its await.
ReceiveList ==
  /\ \E h \in DOMAIN net :
       /\ net[h].pc = "answered" /\ net[h].op = "list"
       /\ net' = [net EXCEPT ![h] = [Sent(net[h].op, <<>>) EXCEPT !.pc = "done"]]
       /\ hook' = IF Ok(net[h])
                    THEN [items |-> net[h].rows, loading |-> FALSE, error |-> <<>>]
                    ELSE [hook EXCEPT !.loading = FALSE,
                                      !.error = <<IF net[h].status = 0 THEN net[h].error
                                                  ELSE "Failed to fetch items">>]
  /\ UNCHANGED <<items, seq, clock, res, everIds, nreq, app, card, calls>>

\* createItem, updateItem, toggleComplete or deleteItem after its await, and
\* then the handler of App that awaited it.  An exchange that is through
\* keeps its kind alone.
ReceiveWrite ==
  /\ \E h \in DOMAIN net :
       LET x == net[h]
           message ==
             IF x.status = 0 \/ (x.op \in {"create", "update"} /\ x.error # "")
               THEN x.error
             ELSE CASE x.op = "create" -> "Failed to create item"
                    [] x.op = "update" -> "Failed to update item"
                    [] x.op = "toggle" -> "Failed to toggle item completion"
                    [] x.op = "delete" -> "Failed to delete item"
       IN /\ x.pc = "answered" /\ x.op # "list"
          /\ net' = [net EXCEPT ![h] = [Sent(net[h].op, <<>>) EXCEPT !.pc = "done"]]
          /\ hook' =
               IF ~Ok(x) THEN [hook EXCEPT !.error = <<message>>]
               ELSE IF x.op = "create"
                 THEN [hook EXCEPT !.items = <<x.rows[1]>> \o hook.items]
               ELSE IF x.op = "delete"
                 THEN [hook EXCEPT !.items = SelectSeq(hook.items, LAMBDA r : r.id # x.req.id)]
               ELSE [hook EXCEPT !.items =
                       [i \in DOMAIN hook.items |->
                          IF hook.items[i].id = x.req.id THEN x.rows[1] ELSE hook.items[i]]]
          /\ app' =
               IF ~Ok(x) \/ x.op = "toggle" THEN app
               ELSE IF x.op = "delete"
                 THEN [app EXCEPT !.successMessage = "Item deleted successfully",
                                  !.confirmDialogOpen = FALSE, !.itemToDelete = <<>>]
               ELSE [app EXCEPT !.successMessage =
                                   IF x.op = "update" THEN "Item updated successfully"
                                   ELSE "Item added successfully",
                                !.dialogOpen = FALSE, !.editingItem = <<>>]
  /\ UNCHANGED <<items, seq, clock, res, everIds, nreq, card, calls>>

\* The list under the filter control and the checkboxes of the cards.
NextFilter ==
  \/ Mount \/ setFilter \/ handleToggleComplete
  \/ ServeList \/ ServeWrite \/ ReceiveList \/ ReceiveWrite

SpecFilter == Init /\ [][NextFilter]_vars

\* Whether every fetch the page has sent is through.
Loaded == \A h \in DOMAIN net : net[h].op = "list" => net[h].pc = "done"

\* The two dialogs, over a network that may fail under a write; the user
\* opens a dialog once the page has loaded.
NextDialogs ==
  \/ Mount \/ ServeList \/ ReceiveList
  \/ Loaded /\ handleOpenDialog
  \/ Loaded /\ handleDeleteClick
  \/ handleCloseDialog \/ handleSaveItem \/ handleConfirmDelete \/ handleCancelDelete
  \/ ServeWrite \/ NetworkError \/ ReceiveWrite

SpecDialogs == Init /\ [][NextDialogs]_vars

\* Whether the step is the receipt of a response to a request of the given
\* kinds, successful or not.
Receipt(ops, ok) ==
  \E h \in DOMAIN net :
    /\ net[h].pc = "answered" /\ net'[h].pc = "done"
    /\ net[h].op \in ops /\ Ok(net[h]) = ok

\* Whether the step sends a request.
Sends == Len(net') > Len(net)

\* C26: a DELETE is sent only from the open confirmation dialog and for the
\* item it holds, which is the item of the card whose delete button was
\* clicked last; the dialog is open exactly while it holds an item; and a
\* step that closes it without the receipt of a response (a cancel) sends
\* nothing and clears the item.
C26_DeleteOnlyAfterConfirm ==
  [][/\ \A h \in DOMAIN net' \ DOMAIN net :
          net'[h].op = "delete" =>
            /\ app.confirmDialogOpen
            /\ app.itemToDelete = <<net'[h].req.id>>
            /\ app' = app
     /\ (app'.itemToDelete # app.itemToDelete /\ app'.itemToDelete # <<>>) =>
          /\ ~app.confirmDialogOpen /\ app'.confirmDialogOpen
          /\ ~Sends
          /\ \E i \in DOMAIN hook.items : hook.items[i].id = app'.itemToDelete[1]
     /\ (app.confirmDialogOpen /\ ~app'.confirmDialogOpen /\ ~Receipt({"delete"}, TRUE)) =>
          ~Sends /\ app'.itemToDelete = <<>>
     /\ app'.confirmDialogOpen <=> app'.itemToDelete # <<>>]_vars

\* A DELETE for record 3 on its way while record 2, whose card is shown too,
\* is in the store: sent from the open dialog that holds 3.
C26_Witness ==
  /\ app.confirmDialogOpen /\ app.itemToDelete = <<3>>
  /\ \E h \in DOMAIN net : net[h].op = "delete" /\ net[h].pc = "sent" /\ net[h].req.id = 3
  /\ \A h \in DOMAIN net : net[h].op = "delete" => net[h].req.id = 3
  /\ \E i \in DOMAIN hook.items : hook.items[i].id = 2
  /\ 2 \in Ids(items)

\* The success message of a kind of request.
SuccessMessage(op) ==
  CASE op = "create" -> "Item added successfully"
    [] op = "update" -> "Item updated successfully"
    [] op = "delete" -> "Item deleted successfully"

\* C29: the receipt of a successful response to a create or an update
\* closes the add/edit dialog, clears its item and sets the success message
\* of the request; the receipt of a successful response to a delete does the
\* same to the confirmation dialog; the receipt of a failure leaves both
\* dialogs, their items and the success message as they were, sets the error
\* and leaves the list of the hook as it was; and no other step sets a
\* success message, and no step that sends a request closes a dialog.
C29_DialogsCloseOnSuccessOnly ==
  [][/\ \A h \in DOMAIN net :
          (net[h].pc = "answered" /\ net'[h].pc = "done"
             /\ net[h].op \in {"create", "update", "delete"}) =>
            IF Ok(net[h])
              THEN /\ app'.successMessage = SuccessMessage(net[h].op)
                   /\ net[h].op = "delete" =>
                        ~app'.confirmDialogOpen /\ app'.itemToDelete = <<>>
                   /\ net[h].op # "delete" =>
                        ~app'.dialogOpen /\ app'.editingItem = <<>>
              ELSE /\ app' = app
                   /\ hook'.error # <<>>
                   /\ hook'.items = hook.items
     /\ app'.successMessage # app.successMessage =>
          Receipt({"create", "update", "delete"}, TRUE)
     /\ Sends => app'.dialogOpen = app.dialogOpen
                   /\ app'.confirmDialogOpen = app.confirmDialogOpen
                   /\ app'.editingItem = app.editingItem
                   /\ app'.itemToDelete = app.itemToDelete]_vars

\* A save has failed: the add/edit dialog is open on the item it edits, the
\* error is set, no success message was ever set and the record in the store
\* is the one the list shows.
C29_Witness ==
  /\ app.dialogOpen /\ app.editingItem # <<>>
  /\ app.successMessage = ""
  /\ hook.error # <<>>
  /\ \E h \in DOMAIN net : net[h].op = "update" /\ net[h].pc = "done"
  /\ app.editingItem[1] \in Range(items)
  /\ app.editingItem[1] \in Range(hook.items)

\* Whether the page is mounted and every request it sent is through.
Quiet == app.mounted /\ \A h \in DOMAIN net : net[h].pc = "done"

\* C27: whenever no request is in flight, every item the list shows passes
\* the selected completion filter.
C27_ListMatchesFilter ==
  Quiet => \A i \in DOMAIN hook.items : PassesFilter(hook.items[i], app.filter)

\* The responses the list endpoint can give to a query over a table.
ListReplies(tbl, q) ==
  { applyFilters(sorted, q.filter, q.search) :
      sorted \in OrderBy(getSortClause(q.sort, q.order), tbl) }

\* C28: once the responses to all the fetches have arrived, and nothing but
\* fetches was sent, the list shows a response to the query sent last, which
\* is the one with the filter now selected.
C28_LatestFetchWins ==
  (Quiet /\ \A h \in DOMAIN net : net[h].op = "list") =>
    hook.items \in ListReplies(items, QueryParams(app.filter))

====
